---- MODULE Spec2Model ----
(***************************************************************************)
(* kev-checker: the cross-reference pipeline of internal/scanner, the      *)
(* KEV, OSV and EPSS clients of internal/clients and the TTL cache of      *)
(* internal/cache.                                                         *)
(*                                                                         *)
(* Go slices are sequences (Go index i is TLA+ index i+1); Go maps are     *)
(* functions whose DOMAIN is the key set (dependency indices stay 0-based).*)
(* float64 scores are integers in thousandths (0.005 is 5, 0.1 is 100).    *)
(* time.Time and time.Duration are integer ticks.                          *)
(***************************************************************************)
EXTENDS Integers, Sequences, FiniteSets, TLC

VARIABLES
    pc,           \* position of the run: new, discover, kev, osv, xref, epss, enrich, filter, done, panic
    config,       \* models.Config: EPSSThreshold, NoCache
    cacheOn,      \* KEVClient.cache # nil
    files,        \* the cache directory: file name -> [exists, modTime, data]
    now,          \* wall clock (time.Now)
    deps,         \* Scan: deps
    kevCatalog,   \* Scan: kevCatalog (CVE ID -> KEVInfo)
    cvesByDep,    \* QueryBatch: results / Scan: cvesByDep (0-based index -> []CVEInfo)
    osvI,         \* QueryBatch: loop variable i
    findings,     \* Scan: findings
    allKEVCVEs,   \* Scan: allKEVCVEs
    epssScores,   \* FetchScores: scores / Scan: epssScores (CVE ID -> EPSSScore)
    epssI,        \* FetchScores: loop variable i
    result,       \* what Scan returned: [findings, err]
    net,          \* calls, requests and failed requests so far
    io,           \* cache calls so far: [reads, writes, readErrs, newErrs]
    lastGet,      \* the value the last Cache.Get call returned
    lastSet,      \* the last Cache.Set call: [data, ok, at]
    timeouts,     \* http.Client.Timeout of the KEV, OSV and EPSS clients, in seconds
    tree,         \* the file system under the scan paths: path -> node
    answers,      \* the result OSV holds for each dependency, in query order
    exit,         \* the process: [exited, code]
    written       \* where runCheck wrote the report: none, stdout or file

vars == <<pc, config, cacheOn, files, now, deps, kevCatalog, cvesByDep, osvI,
          findings, allKEVCVEs, epssScores, epssI, result, net, io, lastGet, lastSet,
          timeouts, tree, answers, exit, written>>

(***************************************************************************)
(* Bounds                                                                  *)
(***************************************************************************)
\* dependencies discovered in one scan
MaxDeps == 2
\* results an OSV response may hold beyond its queries
MaxExtra == 1
\* entries in the vulnerabilities array of a KEV document
MaxKEVEntries == 2
\* clock ticks
MaxTime == 3
\* rows in the data array of an EPSS response
MaxRows == 2
\* FetchKEVCatalog calls on one client
MaxFetches == 2
\* Set calls, and Get calls, on the cache
MaxCacheCalls == 2
\* QueryBatch: const batchSize (100 in the source, scaled)
batchSize == 1
\* FetchScores: const chunkSize (100 in the source, scaled)
chunkSize == 2
\* runCheck: CacheTTL (24h in the source, scaled to ticks)
CacheTTL == 2

(***************************************************************************)
(* Helpers for sequences and maps                                          *)
(***************************************************************************)
SeqsUpTo(S, n) == UNION {[1..k -> S] : k \in 0..n}

Range(s) == {s[i] : i \in DOMAIN s}

Min(a, b) == IF a < b THEN a ELSE b

EmptyMap == [k \in {} |-> 0]

\* s[lo:hi] of Go (0-based, hi exclusive)
Slice(s, lo, hi) == [k \in 1..(hi - lo) |-> s[lo + k]]

RECURSIVE FlattenSeq(_)
FlattenSeq(ss) == IF ss = <<>> THEN <<>> ELSE Head(ss) \o FlattenSeq(Tail(ss))

Perms(S) == {p \in [1..Cardinality(S) -> S] : \A i, j \in DOMAIN p : i # j => p[i] # p[j]}

(***************************************************************************)
(* Identifiers                                                             *)
(***************************************************************************)
kevURL == "https://raw.githubusercontent.com/cisagov/kev-data/main/known_exploited_vulnerabilities.json"

CVE1 == "CVE-2021-3281"
CVE2 == "CVE-2021-44228"
GHSA1 == "GHSA-fvgf-6h6h-3322"

\* strings.HasPrefix(id, "CVE-")
HasPrefixCVE(id) == id \in {CVE1, CVE2}

(***************************************************************************)
(* internal/cache                                                          *)
(***************************************************************************)
\* keyToFilename: hex of the first 16 bytes of sha256(key) + ".json"
keyToFilename(key) ==
    CASE key = kevURL -> "e3a1f0c2.json"
      [] OTHER -> "00000000.json"

Path(key) == keyToFilename(key)

FileNames == {Path(kevURL)}

NoBytes == [json |-> FALSE, vulnerabilities |-> <<>>]

NoFile == [exists |-> FALSE, modTime |-> 0, data |-> NoBytes]

\* Expired with "time.Since(info.ModTime()) >= c.TTL"
ExpiredAtTTL(age) == age >= CacheTTL

\* Cache.Get: "time.Since(info.ModTime()) > c.TTL"
Expired(age) == age > CacheTTL

\* Cache.Get reaches os.ReadFile and it fails
ReadFails(fs, t, key, readOK) ==
    fs[Path(key)].exists /\ ~Expired(t - fs[Path(key)].modTime) /\ ~readOK

\* Cache.Get: stat, expiry test on the modification time, read
Get(fs, t, key, readOK) ==
    IF ~fs[Path(key)].exists THEN [data |-> NoBytes, ok |-> FALSE]
    ELSE IF Expired(t - fs[Path(key)].modTime) THEN [data |-> NoBytes, ok |-> FALSE]
    ELSE IF ~readOK THEN [data |-> NoBytes, ok |-> FALSE]
    ELSE [data |-> fs[Path(key)].data, ok |-> TRUE]

\* Cache.Set: os.WriteFile(path, data, 0644); outcome "ok", "open" (the file
\* could not be opened: nothing changes) or "write" (opened and truncated,
\* then the write failed)
SetOutcomes == {"ok", "open", "write"}

Set(fs, t, key, data, outcome) ==
    CASE outcome = "ok" ->
            [fs EXCEPT ![Path(key)] = [exists |-> TRUE, modTime |-> t, data |-> data]]
      [] outcome = "write" ->
            [fs EXCEPT ![Path(key)] = [exists |-> TRUE, modTime |-> t, data |-> NoBytes]]
      [] OTHER -> fs

(***************************************************************************)
(* internal/clients/kev.go                                                 *)
(***************************************************************************)
\* errors are wrap chains, outermost message first; nil is the empty chain
NoErr == <<>>

Wrap(msg, err) == <<msg>> \o err

ZeroDate == [y |-> 1, m |-> 1, d |-> 1]

\* time.Parse("2006-01-02", s); the error is dropped and the zero time kept
ParseDate(s) ==
    CASE s = "2021-11-03" -> [y |-> 2021, m |-> 11, d |-> 3]
      [] s = "2021-11-17" -> [y |-> 2021, m |-> 11, d |-> 17]
      [] s = "2021-12-10" -> [y |-> 2021, m |-> 12, d |-> 10]
      [] OTHER -> ZeroDate

\* VulnerabilityJSON entries of the catalog document
KEVEntries ==
    { [cveID |-> CVE1, dateAdded |-> "2021-11-03", dueDate |-> "2021-11-17",
       knownRansomwareCampaignUse |-> "Unknown"],
      [cveID |-> CVE2, dateAdded |-> "2021-12-10", dueDate |-> "12/24/2021",
       knownRansomwareCampaignUse |-> "Known"],
      [cveID |-> CVE1, dateAdded |-> "", dueDate |-> "2021-11-17",
       knownRansomwareCampaignUse |-> "Known"] }

\* response bodies: bytes that do not decode, or a document
KEVBodies ==
    {NoBytes} \cup {[json |-> TRUE, vulnerabilities |-> vs] : vs \in SeqsUpTo(KEVEntries, MaxKEVEntries)}

\* the bodies the catalog URL serves: bytes that do not decode, or a
\* document that lists each CVE once, CVE1 first, every dateAdded filled in
CatalogBodies ==
    {b \in KEVBodies : \A i, j \in DOMAIN b.vulnerabilities :
        /\ b.vulnerabilities[i].dateAdded # ""
        /\ i < j => b.vulnerabilities[i].cveID # b.vulnerabilities[j].cveID
                    /\ b.vulnerabilities[i].cveID = CVE1}

KEVInfoOf(v) ==
    [CVEID |-> v.cveID,
     RansomwareUse |-> (v.knownRansomwareCampaignUse = "Known"),
     DateAdded |-> ParseDate(v.dateAdded),
     DueDate |-> ParseDate(v.dueDate),
     EPSSScore |-> 0,
     EPSSPercentile |-> 0]

\* LastIndexOf keeping the first entry of a cveID
LastIndexOfFirst(vs, id) == CHOOSE i \in DOMAIN vs : vs[i].cveID = id /\ \A j \in DOMAIN vs : vs[j].cveID = id => i <= j

\* the index of the entry the loop leaves in catalog[id]: the last one
LastIndexOf(vs, id) == CHOOSE i \in DOMAIN vs : vs[i].cveID = id /\ \A j \in DOMAIN vs : vs[j].cveID = id => j <= i

\* parseKEVData
parseKEVData(data) ==
    IF ~data.json THEN [catalog |-> EmptyMap, err |-> <<"failed to parse KEV data">>]
    ELSE [catalog |-> [id \in {data.vulnerabilities[i].cveID : i \in DOMAIN data.vulnerabilities} |->
                          KEVInfoOf(data.vulnerabilities[LastIndexOf(data.vulnerabilities, id)])],
          err |-> NoErr]

\* the answers to the GET of kevURL: no response, a status other than 200,
\* a body that cannot be read, or a body
KEVResponsesOf(bodies) ==
    {[status |-> f, body |-> NoBytes] : f \in {"transport", "non200", "read"}}
    \cup {[status |-> "ok", body |-> b] : b \in bodies}

NoGet == [data |-> NoBytes, ok |-> FALSE]

\* FetchKEVCatalog: the three error returns of the remote fetch
KEVGetError(resp) ==
    CASE resp.status = "transport" -> <<"failed to fetch KEV data">>
      [] resp.status = "non200" -> <<"unexpected status code">>
      [] resp.status = "read" -> <<"failed to read response body">>
      [] OTHER -> NoErr

\* NeedsFetch going to the network whatever the cache returned
NeedsFetchAlways(cached) == TRUE

\* FetchKEVCatalog: "if data == nil"
NeedsFetch(cached) == ~cached.ok

\* FetchKEVCatalog: "if c.cache != nil { c.cache.Set(kevURL, data) }", reached
\* after a 200 response was read
StoresResponse(on) == on

\* FetchKEVCatalog for a client whose cache is on or nil, the outcome of the
\* read of the cache file, the answer of the server and the outcome of Set
FetchKEVCatalog(fs, t, on, readOK, resp, setOutcome) ==
    LET cached == IF on THEN Get(fs, t, kevURL, readOK) ELSE NoGet
        fetch  == NeedsFetch(cached)
        failed == fetch /\ KEVGetError(resp) # NoErr
        data   == IF fetch THEN resp.body ELSE cached.data
        parsed == parseKEVData(data)
        stores == fetch /\ ~failed /\ StoresResponse(on)
    IN  [catalog |-> IF failed THEN EmptyMap ELSE parsed.catalog,
         err     |-> IF failed THEN KEVGetError(resp) ELSE parsed.err,
         files   |-> IF stores THEN Set(fs, t, kevURL, data, setOutcome) ELSE fs,
         gets    |-> IF fetch THEN 1 ELSE 0,
         reads   |-> IF on THEN 1 ELSE 0,
         writes  |-> IF stores THEN 1 ELSE 0,
         readErrs |-> IF on /\ ReadFails(fs, t, kevURL, readOK) THEN 1 ELSE 0,
         stored  |-> [data |-> data, ok |-> setOutcome = "ok", at |-> t],
         failed  |-> IF failed THEN 1 ELSE 0,
         cached  |-> cached]

(***************************************************************************)
(* internal/clients: OSV                                                   *)
(***************************************************************************)
\* osvVulnerability entries: an advisory filed under a CVE ID that lists
\* itself and a merged CVE as aliases, an advisory filed under a GHSA ID
\* that lists one CVE twice, and an advisory with no CVE identifier
VulnCVE == [ID |-> CVE1, Aliases |-> <<CVE1, CVE2>>, Summary |-> "merged advisory"]

VulnGHSA == [ID |-> GHSA1, Aliases |-> <<CVE2, CVE2>>, Summary |-> "remote code execution"]

VulnNoCVE == [ID |-> GHSA1, Aliases |-> <<>>, Summary |-> "advisory without CVE"]

OSVVulns == {VulnCVE, VulnGHSA, VulnNoCVE}

\* the vulns lists a result may carry: none, one entry, or two entries
\* that share a CVE
OSVResults == {<<>>, <<VulnGHSA, VulnCVE>>} \cup {<<v>> : v \in OSVVulns}

\* the results a response may carry beyond its queries
ExtraResults == {<<>>, <<VulnCVE>>}

OSVFailures == {"transport", "non200", "decode"}

\* the responses to a chunk of n queries: a failure, a decoded body with up
\* to n results, or one with n results and up to MaxExtra more
OSVResponses(n) ==
    {[status |-> f, results |-> <<>>] : f \in OSVFailures}
    \cup {[status |-> "ok", results |-> rs] : rs \in SeqsUpTo(OSVResults, n)}
    \cup {[status |-> "ok", results |-> rs \o extra] :
            rs \in [1..n -> OSVResults], extra \in SeqsUpTo(ExtraResults, MaxExtra) \ {<<>>}}

\* queryChunkError letting a body that does not decode pass as empty
queryChunkErrorNoDecode(resp) ==
    CASE resp.status = "transport" -> <<"post failed">>
      [] resp.status = "non200" -> <<"OSV API returned status">>
      [] OTHER -> NoErr

\* queryChunk: the three error returns
queryChunkError(resp) ==
    CASE resp.status = "transport" -> <<"post failed">>
      [] resp.status = "non200" -> <<"OSV API returned status">>
      [] resp.status = "decode" -> <<"invalid JSON">>
      [] OTHER -> NoErr

\* the alias loop of extractCVEIDs, seen being the IDs appended so far
RECURSIVE appendAliases(_, _)
appendAliases(cves, aliases) ==
    IF aliases = <<>> THEN cves
    ELSE IF HasPrefixCVE(Head(aliases)) /\ Head(aliases) \notin Range(cves)
         THEN appendAliases(Append(cves, Head(aliases)), Tail(aliases))
         ELSE appendAliases(cves, Tail(aliases))

\* extractCVEIDs appending every CVE alias, seen or not
extractCVEIDsNoSeen(id, aliases) ==
    (IF HasPrefixCVE(id) THEN <<id>> ELSE <<>>) \o SelectSeq(aliases, HasPrefixCVE)

\* extractCVEIDs
extractCVEIDs(id, aliases) ==
    appendAliases(IF HasPrefixCVE(id) THEN <<id>> ELSE <<>>, aliases)

\* the CVEInfo entries one vulnerability entry appends to results[j]
CVEInfosOfVuln(vuln) ==
    LET cves == extractCVEIDs(vuln.ID, vuln.Aliases)
    IN  [k \in DOMAIN cves |-> [ID |-> cves[k], Summary |-> vuln.Summary, Source |-> "OSV"]]

CVEInfosOfResult(vulns) == FlattenSeq([k \in DOMAIN vulns |-> CVEInfosOfVuln(vulns[k])])

\* queryChunk, the decoding of a 200 response: position j -> []CVEInfo, with
\* a key only where something was appended
queryChunk(results) ==
    [j \in {k \in 0..(Len(results) - 1) : CVEInfosOfResult(results[k + 1]) # <<>>} |->
        CVEInfosOfResult(results[j + 1])]

\* MapBack storing the results of a chunk under their position in the chunk
MapBackNoOffset(results, i, chunkResults) ==
    [k \in DOMAIN results \cup DOMAIN chunkResults |->
        IF k \in DOMAIN chunkResults THEN chunkResults[k] ELSE results[k]]

\* QueryBatch, the mapping of a chunk's results back to original indices
MapBack(results, i, chunkResults) ==
    [k \in DOMAIN results \cup {i + j : j \in DOMAIN chunkResults} |->
        IF k - i \in DOMAIN chunkResults THEN chunkResults[k - i] ELSE results[k]]

(***************************************************************************)
(* internal/clients: EPSS                                                  *)
(***************************************************************************)
\* strconv.ParseFloat(s, 64) in thousandths; the error is dropped, leaving 0
ParseFloat(s) ==
    CASE s = "0.005" -> 5
      [] s = "0.1" -> 100
      [] s = "0.2" -> 200
      [] s = "0.9" -> 900
      [] OTHER -> 0

\* EPSSData rows a response may carry
EPSSRows ==
    { [CVE |-> CVE1, EPSS |-> "0.005", Percentile |-> "0.2"],
      [CVE |-> CVE1, EPSS |-> "0.1", Percentile |-> "0.9"],
      [CVE |-> CVE2, EPSS |-> "0.1", Percentile |-> "0.9"] }

EPSSFailures == {"transport", "non200", "decode"}

EPSSResponses ==
    {[status |-> f, data |-> <<>>] : f \in EPSSFailures}
    \cup {[status |-> "ok", data |-> d] : d \in SeqsUpTo(EPSSRows, MaxRows)}

\* FetchScores: the three "continue" branches
ChunkSkipped(resp) == resp.status \in EPSSFailures

\* FetchScores, the loop over epssResp.Data
RECURSIVE StoreRows(_, _)
StoreRows(scores, data) ==
    IF data = <<>> THEN scores
    ELSE StoreRows([c \in DOMAIN scores \cup {Head(data).CVE} |->
                       IF c = Head(data).CVE
                       THEN [Score |-> ParseFloat(Head(data).EPSS),
                             Percentile |-> ParseFloat(Head(data).Percentile)]
                       ELSE scores[c]],
                   Tail(data))

(***************************************************************************)
(* internal/scanner                                                        *)
(***************************************************************************)
Thresholds == {0, 100}

PackageNames == <<"django", "lodash", "gin">>

Ecosystems == <<"PyPI", "npm", "Go">>

\* the i-th dependency record the parsers return (i from 1)
Dependency(i) ==
    [Name |-> PackageNames[((i - 1) % 3) + 1], Ecosystem |-> Ecosystems[((i - 1) % 3) + 1], Line |-> i]

\* FindingOf leaving the CVE loop at the first KEV match
FindingOfFirstMatch(ds, byDep, catalog, depIdx) ==
    [Dependency |-> ds[depIdx + 1],
     CVEs |-> byDep[depIdx],
     KEVs |-> LET hits == SelectSeq(byDep[depIdx], LAMBDA cve : cve.ID \in DOMAIN catalog)
              IN  [k \in DOMAIN hits \cap {1} |-> catalog[hits[k].ID]]]

\* Scan step 4, the body of the loop for one depIdx
FindingOf(ds, byDep, catalog, depIdx) ==
    [Dependency |-> ds[depIdx + 1],
     CVEs |-> byDep[depIdx],
     KEVs |-> LET hits == SelectSeq(byDep[depIdx], LAMBDA cve : cve.ID \in DOMAIN catalog)
              IN  [k \in DOMAIN hits |-> catalog[hits[k].ID]]]

\* CrossReference keeping the findings without KEV match
CrossReferenceKeepAll(ds, byDep, catalog, order) ==
    [k \in DOMAIN order |-> FindingOf(ds, byDep, catalog, order[k])]

\* Scan step 4 for the order in which range yields the keys of cvesByDep
CrossReference(ds, byDep, catalog, order) ==
    SelectSeq([k \in DOMAIN order |-> FindingOf(ds, byDep, catalog, order[k])],
              LAMBDA f : Len(f.KEVs) > 0)

MatchedCVEs(ds, byDep, catalog, order) ==
    FlattenSeq([k \in DOMAIN order |->
        LET kevs == FindingOf(ds, byDep, catalog, order[k]).KEVs
        IN  [n \in DOMAIN kevs |-> kevs[n].CVEID]])

\* EnrichKEV writing the score and leaving the percentile
EnrichKEVScoreOnly(kev, scores) ==
    IF kev.CVEID \in DOMAIN scores
    THEN [kev EXCEPT !.EPSSScore = scores[kev.CVEID].Score]
    ELSE kev

\* Scan step 5, the write-back of the scores
EnrichKEV(kev, scores) ==
    IF kev.CVEID \in DOMAIN scores
    THEN [kev EXCEPT !.EPSSScore = scores[kev.CVEID].Score,
                     !.EPSSPercentile = scores[kev.CVEID].Percentile]
    ELSE kev

\* Enriched leaving out the KEV entries that have no EPSS row
EnrichedDroppingUnscored(fs, scores) ==
    [i \in DOMAIN fs |->
        [fs[i] EXCEPT !.KEVs = LET have == SelectSeq(fs[i].KEVs, LAMBDA kev : kev.CVEID \in DOMAIN scores)
                               IN  [j \in DOMAIN have |-> EnrichKEV(have[j], scores)]]]

Enriched(fs, scores) ==
    [i \in DOMAIN fs |->
        [fs[i] EXCEPT !.KEVs = [j \in DOMAIN fs[i].KEVs |-> EnrichKEV(fs[i].KEVs[j], scores)]]]

\* KeepKEV with "kev.EPSSScore > s.config.EPSSThreshold"
KeepKEVAbove(kev, threshold) == kev.EPSSScore > threshold

\* KeepKEV with "kev.EPSSScore <= s.config.EPSSThreshold"
KeepKEVUpTo(kev, threshold) == kev.EPSSScore <= threshold

\* Scan step 6: "if kev.EPSSScore >= s.config.EPSSThreshold"
KeepKEV(kev, threshold) == kev.EPSSScore >= threshold

\* Scan step 6: the filter of the findings, or none when the threshold is not positive
Filtered(fs, threshold) ==
    IF threshold > 0
    THEN LET cut == [i \in DOMAIN fs |->
                        [fs[i] EXCEPT !.KEVs = SelectSeq(fs[i].KEVs, LAMBDA kev : KeepKEV(kev, threshold))]]
         IN  SelectSeq(cut, LAMBDA f : Len(f.KEVs) > 0)
    ELSE fs

(***************************************************************************)
(* The run: scanner.New, then the stages of Scanner.Scan                   *)
(***************************************************************************)
NoResult == [findings |-> <<>>, err |-> NoErr, returned |-> FALSE]

Returned(fs, err) == [findings |-> fs, err |-> err, returned |-> TRUE]

NoFiles == [f \in FileNames |-> NoFile]

NoCalls == [fetches |-> 0, kev |-> 0, kevFailed |-> 0, osv |-> 0, osvFailed |-> 0,
            epss |-> 0, epssFailed |-> 0]

NoSet == [data |-> NoBytes, ok |-> FALSE, at |-> 0]

\* NewKEVClient: "Timeout: 60 * time.Second"
kevTimeout == 60

\* NewOSVClient: "Timeout: 60 * time.Second"
osvTimeout == 60

\* NewEPSSClient: "Timeout: 30 * time.Second"
epssTimeout == 30

NoTimeouts == [kev |-> 0, osv |-> 0, epss |-> 0]

NoTree == [p \in {} |-> 0]

NoExit == [exited |-> FALSE, code |-> 0]

NoIO == [reads |-> 0, writes |-> 0, readErrs |-> 0, newErrs |-> 0]

Init ==
    /\ pc = "new"
    /\ config \in [EPSSThreshold : Thresholds, NoCache : BOOLEAN]
    /\ cacheOn = FALSE
    /\ files = NoFiles
    /\ now = 0
    /\ deps = <<>>
    /\ kevCatalog = EmptyMap
    /\ cvesByDep = EmptyMap
    /\ osvI = 0
    /\ findings = <<>>
    /\ allKEVCVEs = <<>>
    /\ epssScores = EmptyMap
    /\ epssI = 0
    /\ result = NoResult
    /\ net = NoCalls
    /\ io = NoIO
    /\ lastGet = NoGet
    /\ lastSet = NoSet
    /\ timeouts = NoTimeouts
    /\ tree = NoTree
    /\ answers = <<>>
    /\ exit = NoExit
    /\ written = "none"

\* NewError returning the error of cache.New
NewErrorOfCache(initOK) == IF initOK THEN NoErr ELSE <<"failed to initialize cache">>

\* scanner.New: "return &Scanner{...}, nil"
NewError(initOK) == NoErr

\* scanner.New: cache.New is called unless NoCache; its failure leaves c nil
New ==
    /\ pc = "new"
    /\ timeouts' = [kev |-> kevTimeout, osv |-> osvTimeout, epss |-> epssTimeout]
    /\ IF config.NoCache
       THEN /\ cacheOn' = FALSE
            /\ pc' = "discover"
            /\ UNCHANGED <<io, result>>
       ELSE \E initOK \in BOOLEAN :
            /\ cacheOn' = initOK
            /\ io' = [io EXCEPT !.newErrs = IF initOK THEN @ ELSE @ + 1]
            /\ pc' = IF NewError(initOK) = NoErr THEN "discover" ELSE "done"
            /\ result' = IF NewError(initOK) = NoErr THEN result ELSE Returned(<<>>, NewError(initOK))
    /\ UNCHANGED <<tree, answers, exit, written, config, files, now, deps, kevCatalog, cvesByDep, osvI, findings,
                   allKEVCVEs, epssScores, epssI, net, lastGet, lastSet>>

\* AfterDiscover going on to the KEV fetch with no dependency
AfterDiscoverAlwaysKEV(n) == "kev"

\* Scan step 1: "if len(deps) == 0 { return nil, nil }"
AfterDiscover(n) == IF n = 0 THEN "done" ELSE "kev"

\* Scan step 1: discoverDependencies fails, or yields n dependencies
Discover ==
    /\ pc = "discover"
    /\ \/ /\ pc' = "done"
          /\ result' = Returned(<<>>, <<"failed to discover dependencies", "failed to stat path">>)
          /\ deps' = <<>>
       \/ \E n \in 0..MaxDeps :
            /\ deps' = [i \in 1..n |-> Dependency(i)]
            /\ pc' = AfterDiscover(n)
            /\ result' = IF n = 0 THEN Returned(<<>>, NoErr) ELSE result
    /\ UNCHANGED <<timeouts, tree, answers, exit, written, config, cacheOn, files, now, kevCatalog, cvesByDep, osvI, findings,
                   allKEVCVEs, epssScores, epssI, net, io, lastGet, lastSet>>

\* AfterFetchKEV going on to the OSV query whatever FetchKEVCatalog returned
AfterFetchKEVIgnoringErr(err) == "osv"

\* Scan step 2: "if err != nil { return nil, ... }"
AfterFetchKEV(err) == IF err # NoErr THEN "done" ELSE "osv"

\* Scan step 2: s.kevClient.FetchKEVCatalog()
FetchKEV ==
    /\ pc = "kev"
    /\ \E readOK \in BOOLEAN, resp \in KEVResponsesOf(CatalogBodies), setOutcome \in SetOutcomes :
        LET r == FetchKEVCatalog(files, now, cacheOn, readOK, resp, setOutcome)
        IN  /\ net' = [net EXCEPT !.fetches = @ + 1, !.kev = @ + r.gets, !.kevFailed = @ + r.failed]
            /\ io' = [io EXCEPT !.reads = @ + r.reads, !.writes = @ + r.writes,
                                !.readErrs = @ + r.readErrs]
            /\ files' = r.files
            /\ lastGet' = IF r.reads = 1 THEN r.cached ELSE lastGet
            /\ lastSet' = IF r.writes = 1 THEN r.stored ELSE lastSet
            /\ kevCatalog' = r.catalog
            /\ pc' = AfterFetchKEV(r.err)
            /\ result' = IF r.err # NoErr
                         THEN Returned(<<>>, Wrap("failed to fetch KEV catalog", r.err))
                         ELSE result
    /\ UNCHANGED <<timeouts, tree, answers, exit, written, config, cacheOn, now, deps, cvesByDep, osvI, findings,
                   allKEVCVEs, epssScores, epssI>>

\* AfterQueryChunk sending a failed chunk once more
AfterQueryChunkRetry(i, n, err) ==
    IF err # NoErr THEN "osv" ELSE IF i + batchSize < n THEN "osv" ELSE "xref"

\* QueryBatch: "if err != nil { return nil, ... }", and the loop test
\* "i < len(deps)" after "i += batchSize"
AfterQueryChunk(i, n, err) ==
    IF err # NoErr THEN "done" ELSE IF i + batchSize < n THEN "osv" ELSE "xref"

\* Scan step 3: QueryBatch returns the empty map without a request when
\* there is no dependency, and else runs one iteration of its chunk loop
QueryBatch ==
    /\ pc = "osv"
    /\ IF Len(deps) = 0
       THEN /\ cvesByDep' = EmptyMap
            /\ pc' = "xref"
            /\ UNCHANGED <<net, osvI, result>>
       ELSE LET end == Min(osvI + batchSize, Len(deps))
                chunk == Slice(deps, osvI, end)
            IN  \E resp \in OSVResponses(Len(chunk)) :
                 /\ net' = [net EXCEPT !.osv = @ + 1,
                                       !.osvFailed = IF resp.status # "ok" THEN @ + 1 ELSE @]
                 /\ IF queryChunkError(resp) # NoErr
                    THEN /\ pc' = AfterQueryChunk(osvI, Len(deps), queryChunkError(resp))
                         /\ result' = Returned(<<>>, <<"failed to query OSV", "failed to query OSV batch">>
                                                      \o queryChunkError(resp))
                         /\ cvesByDep' = EmptyMap
                         /\ osvI' = osvI
                    ELSE /\ cvesByDep' = MapBack(cvesByDep, osvI, queryChunk(resp.results))
                         /\ osvI' = osvI + batchSize
                         /\ pc' = AfterQueryChunk(osvI, Len(deps), queryChunkError(resp))
                         /\ result' = result
    /\ UNCHANGED <<timeouts, tree, answers, exit, written, config, cacheOn, files, now, deps, kevCatalog, findings,
                   allKEVCVEs, epssScores, epssI, io, lastGet, lastSet>>

\* Scan step 4: the loop over cvesByDep, in the order range yields its keys;
\* deps[depIdx] panics when depIdx is not an index of deps
CrossRef ==
    /\ pc = "xref"
    /\ IF \E depIdx \in DOMAIN cvesByDep : depIdx >= Len(deps)
       THEN /\ pc' = "panic"
            /\ UNCHANGED <<findings, allKEVCVEs>>
       ELSE \E order \in Perms(DOMAIN cvesByDep) :
            /\ findings' = CrossReference(deps, cvesByDep, kevCatalog, order)
            /\ allKEVCVEs' = MatchedCVEs(deps, cvesByDep, kevCatalog, order)
            /\ pc' = IF Len(allKEVCVEs') > 0 THEN "epss" ELSE "filter"
    /\ UNCHANGED <<timeouts, tree, answers, exit, written, config, cacheOn, files, now, deps, kevCatalog, cvesByDep, osvI,
                   epssScores, epssI, result, net, io, lastGet, lastSet>>

\* AfterChunk leaving the loop at the first failed chunk
AfterChunkBreak(i, n, failed) == IF i + chunkSize < n /\ ~failed THEN "epss" ELSE "enrich"

\* FetchScores: "continue" and the loop test "i < len(cveIDs)" after "i += chunkSize"
AfterChunk(i, n, failed) == IF i + chunkSize < n THEN "epss" ELSE "enrich"

\* Scan step 5: one iteration of the chunk loop of FetchScores
FetchScores ==
    /\ pc = "epss"
    /\ \E resp \in EPSSResponses :
        /\ net' = [net EXCEPT !.epss = @ + 1,
                              !.epssFailed = IF resp.status # "ok" THEN @ + 1 ELSE @]
        /\ epssScores' = IF ChunkSkipped(resp) THEN epssScores ELSE StoreRows(epssScores, resp.data)
    /\ epssI' = epssI + chunkSize
    /\ pc' = AfterChunk(epssI, Len(allKEVCVEs), net'.epssFailed > net.epssFailed)
    /\ UNCHANGED <<timeouts, tree, answers, exit, written, config, cacheOn, files, now, deps, kevCatalog, cvesByDep, osvI, findings,
                   allKEVCVEs, result, io, lastGet, lastSet>>

\* Scan step 5: the scores are written into the KEV entries
Enrich ==
    /\ pc = "enrich"
    /\ findings' = Enriched(findings, epssScores)
    /\ pc' = "filter"
    /\ UNCHANGED <<timeouts, tree, answers, exit, written, config, cacheOn, files, now, deps, kevCatalog, cvesByDep, osvI,
                   allKEVCVEs, epssScores, epssI, result, net, io, lastGet, lastSet>>

\* Scan step 6 and the return
Filter ==
    /\ pc = "filter"
    /\ findings' = Filtered(findings, config.EPSSThreshold)
    /\ result' = Returned(findings', NoErr)
    /\ pc' = "done"
    /\ UNCHANGED <<timeouts, tree, answers, exit, written, config, cacheOn, files, now, deps, kevCatalog, cvesByDep, osvI,
                   allKEVCVEs, epssScores, epssI, net, io, lastGet, lastSet>>

Next ==
    \/ New
    \/ Discover
    \/ FetchKEV
    \/ QueryBatch
    \/ CrossRef
    \/ FetchScores
    \/ Enrich
    \/ Filter

Spec == Init /\ [][Next]_vars

(***************************************************************************)
(* The KEV client on its own: NewKEVClient(c), then FetchKEVCatalog calls  *)
(* against a cache directory that earlier runs may have written            *)
(***************************************************************************)
\* the cache file a client may find: none, or one written at time 0
InitialFiles ==
    {NoFiles} \cup {[f \in FileNames |-> [exists |-> TRUE, modTime |-> 0, data |-> b]] : b \in CatalogBodies}

InitKEV ==
    /\ pc = "client"
    /\ config \in [EPSSThreshold : {0}, NoCache : BOOLEAN]
    /\ cacheOn \in {on \in BOOLEAN : config.NoCache => ~on}
    /\ files \in InitialFiles
    /\ now = 0
    /\ deps = <<>>
    /\ kevCatalog = EmptyMap
    /\ cvesByDep = EmptyMap
    /\ osvI = 0
    /\ findings = <<>>
    /\ allKEVCVEs = <<>>
    /\ epssScores = EmptyMap
    /\ epssI = 0
    /\ result = NoResult
    /\ net = NoCalls
    /\ io = NoIO
    /\ lastGet = NoGet
    /\ lastSet = NoSet
    /\ timeouts = NoTimeouts
    /\ tree = NoTree
    /\ answers = <<>>
    /\ exit = NoExit
    /\ written = "none"

\* time passes between calls
Tick ==
    /\ pc \in {"client", "cache"}
    /\ now < MaxTime
    /\ now' = now + 1
    /\ UNCHANGED <<timeouts, tree, answers, exit, written, pc, config, cacheOn, files, deps, kevCatalog, cvesByDep, osvI, findings,
                   allKEVCVEs, epssScores, epssI, result, net, io, lastGet, lastSet>>

\* one call of KEVClient.FetchKEVCatalog; result holds the error it returned
CallFetchKEVCatalog ==
    /\ pc = "client"
    /\ net.fetches < MaxFetches
    /\ \E readOK \in BOOLEAN, resp \in KEVResponsesOf(CatalogBodies), setOutcome \in SetOutcomes :
        LET r == FetchKEVCatalog(files, now, cacheOn, readOK, resp, setOutcome)
        IN  /\ net' = [net EXCEPT !.fetches = @ + 1, !.kev = @ + r.gets, !.kevFailed = @ + r.failed]
            /\ io' = [io EXCEPT !.reads = @ + r.reads, !.writes = @ + r.writes,
                                !.readErrs = @ + r.readErrs]
            /\ files' = r.files
            /\ lastGet' = IF r.reads = 1 THEN r.cached ELSE lastGet
            /\ lastSet' = IF r.writes = 1 THEN r.stored ELSE lastSet
            /\ kevCatalog' = r.catalog
            /\ result' = Returned(<<>>, r.err)
    /\ UNCHANGED <<timeouts, tree, answers, exit, written, pc, config, cacheOn, now, deps, cvesByDep, osvI, findings,
                   allKEVCVEs, epssScores, epssI>>

NextKEV ==
    \/ Tick
    \/ CallFetchKEVCatalog

SpecKEV == InitKEV /\ [][NextKEV]_vars

(***************************************************************************)
(* The cache on its own: Set and Get calls on one key as time passes       *)
(***************************************************************************)
InitCache ==
    /\ pc = "cache"
    /\ config = [EPSSThreshold |-> 0, NoCache |-> FALSE]
    /\ cacheOn = TRUE
    /\ files = NoFiles
    /\ now = 0
    /\ deps = <<>>
    /\ kevCatalog = EmptyMap
    /\ cvesByDep = EmptyMap
    /\ osvI = 0
    /\ findings = <<>>
    /\ allKEVCVEs = <<>>
    /\ epssScores = EmptyMap
    /\ epssI = 0
    /\ result = NoResult
    /\ net = NoCalls
    /\ io = NoIO
    /\ lastGet = NoGet
    /\ lastSet = NoSet
    /\ timeouts = NoTimeouts
    /\ tree = NoTree
    /\ answers = <<>>
    /\ exit = NoExit
    /\ written = "none"

\* a call of Cache.Set(kevURL, data)
CacheSet ==
    /\ pc = "cache"
    /\ io.writes < MaxCacheCalls
    /\ \E data \in CatalogBodies, outcome \in SetOutcomes :
        /\ files' = Set(files, now, kevURL, data, outcome)
        /\ lastSet' = [data |-> data, ok |-> outcome = "ok", at |-> now]
    /\ io' = [io EXCEPT !.writes = @ + 1]
    /\ UNCHANGED <<timeouts, tree, answers, exit, written, pc, config, cacheOn, now, deps, kevCatalog, cvesByDep, osvI, findings,
                   allKEVCVEs, epssScores, epssI, result, net, lastGet>>

\* a call of Cache.Get(kevURL)
CacheGet ==
    /\ pc = "cache"
    /\ io.reads < MaxCacheCalls
    /\ \E readOK \in BOOLEAN :
        /\ lastGet' = Get(files, now, kevURL, readOK)
        /\ io' = [io EXCEPT !.reads = @ + 1,
                            !.readErrs = IF ReadFails(files, now, kevURL, readOK) THEN @ + 1 ELSE @]
    /\ UNCHANGED <<timeouts, tree, answers, exit, written, pc, config, cacheOn, files, now, deps, kevCatalog, cvesByDep, osvI, findings,
                   allKEVCVEs, epssScores, epssI, result, net, lastSet>>

NextCache ==
    \/ Tick
    \/ CacheSet
    \/ CacheGet

SpecCache == InitCache /\ [][NextCache]_vars

(***************************************************************************)
(* Discovery: Scanner.discoverDependencies and Scanner.parseFile over a    *)
(* file system, as step 1 of Scan                                          *)
(***************************************************************************)
\* scan paths in config.Paths
MaxPaths == 2

\* the manifest files of the file system, and what reading and parsing one gives
ManifestFiles == {"proj/go.mod", "proj/node_modules/package.json", "vendor/go.mod", "package.json"}

FileStates == {"ok", "unreadable", "malformed"}

\* the paths a user may give: a directory, a directory named like a pruned
\* one, a manifest file, a path that does not exist
ScanPaths == {"proj", "vendor", "package.json", "gone"}

Dir(name, entries, readable) ==
    [kind |-> "dir", name |-> name, entries |-> entries, readable |-> readable, state |-> "ok"]

File(name, state) ==
    [kind |-> "file", name |-> name, entries |-> <<>>, readable |-> TRUE, state |-> state]

\* the file system, entries in the lexical order ReadDir returns; st gives the
\* state of each manifest file, readable whether ReadDir of proj succeeds
TreeOf(st, readable) ==
    [p \in ManifestFiles \cup {"proj", "proj/node_modules", "proj/notes.md", "vendor", "gone"} |->
        CASE p = "proj" -> Dir("proj", <<"proj/go.mod", "proj/node_modules", "proj/notes.md">>, readable)
          [] p = "proj/go.mod" -> File("go.mod", st[p])
          [] p = "proj/node_modules" -> Dir("node_modules", <<"proj/node_modules/package.json">>, TRUE)
          [] p = "proj/node_modules/package.json" -> File("package.json", st[p])
          [] p = "proj/notes.md" -> File("notes.md", "ok")
          [] p = "vendor" -> Dir("vendor", <<"vendor/go.mod">>, TRUE)
          [] p = "vendor/go.mod" -> File("go.mod", st[p])
          [] p = "package.json" -> File("package.json", st[p])
          [] OTHER -> [kind |-> "none", name |-> "gone", entries |-> <<>>, readable |-> FALSE, state |-> "ok"]]

Trees == {TreeOf(st, readable) : st \in [ManifestFiles -> FileStates], readable \in BOOLEAN}

\* GetAllParsers and the CanParse methods: the file names some parser takes
CanParse(filename) ==
    filename \in {"requirements.txt", "pyproject.toml", "package-lock.json", "package.json", "go.mod"}

\* what Parse returns for a well-formed manifest: one dependency
ParsedDeps(path, filename) ==
    <<[Name |-> IF filename = "go.mod" THEN "gin" ELSE "lodash",
       Ecosystem |-> IF filename = "go.mod" THEN "Go" ELSE "npm",
       SourceFile |-> path]>>

\* parseFile: no matching parser gives nil, nil; else ReadFile, then Parse
parseFile(t, path) ==
    IF ~CanParse(t[path].name) THEN [deps |-> <<>>, err |-> NoErr]
    ELSE IF t[path].state = "unreadable" THEN [deps |-> <<>>, err |-> <<"read failed">>]
    ELSE IF t[path].state = "malformed" THEN [deps |-> <<>>, err |-> <<"parse failed">>]
    ELSE [deps |-> ParsedDeps(path, t[path].name), err |-> NoErr]

\* the WalkDir callback: "name == node_modules || ... || name == venv"
Pruned(name) == name \in {"node_modules", ".git", "vendor", "__pycache__", ".venv", "venv"}

\* filepath.WalkDir with the callback of discoverDependencies, from path on:
\* a pruned directory is skipped (SkipDir), a directory that cannot be read
\* ends the walk with the error, a file that fails to parse is passed over
RECURSIVE walkDir(_, _, _)
walkDir(t, todo, acc) ==
    IF todo = <<>> \/ acc.err # NoErr THEN acc
    ELSE LET path == Head(todo)
         IN  IF t[path].kind = "dir"
             THEN IF Pruned(t[path].name) THEN walkDir(t, Tail(todo), acc)
                  ELSE IF ~t[path].readable
                       THEN [acc EXCEPT !.err = <<"readdir failed">>]
                       ELSE walkDir(t, t[path].entries \o Tail(todo), acc)
             ELSE LET r == parseFile(t, path)
                  IN  IF r.err # NoErr THEN walkDir(t, Tail(todo), acc)
                      ELSE walkDir(t, Tail(todo), [acc EXCEPT !.deps = @ \o r.deps])

\* discoverDependencies: the loop over config.Paths
RECURSIVE discoverDependencies(_, _, _)
discoverDependencies(t, paths, allDeps) ==
    IF paths = <<>> THEN [deps |-> allDeps, err |-> NoErr]
    ELSE LET path == Head(paths)
         IN  IF t[path].kind = "none"
             THEN [deps |-> <<>>, err |-> <<"failed to stat path">>]
             ELSE IF t[path].kind = "file"
             THEN LET r == parseFile(t, path)
                  IN  IF r.err # NoErr THEN [deps |-> <<>>, err |-> r.err]
                      ELSE discoverDependencies(t, Tail(paths), allDeps \o r.deps)
             ELSE LET w == walkDir(t, <<path>>, [deps |-> allDeps, err |-> NoErr])
                  IN  IF w.err # NoErr THEN [deps |-> <<>>, err |-> w.err]
                      ELSE discoverDependencies(t, Tail(paths), w.deps)

InitDiscover ==
    /\ pc = "discover"
    /\ tree \in Trees
    /\ config \in [EPSSThreshold : {0}, NoCache : {TRUE}, Paths : SeqsUpTo(ScanPaths, MaxPaths) \ {<<>>}]
    /\ cacheOn = FALSE
    /\ files = NoFiles
    /\ now = 0
    /\ deps = <<>>
    /\ kevCatalog = EmptyMap
    /\ cvesByDep = EmptyMap
    /\ osvI = 0
    /\ findings = <<>>
    /\ allKEVCVEs = <<>>
    /\ epssScores = EmptyMap
    /\ epssI = 0
    /\ result = NoResult
    /\ net = NoCalls
    /\ io = NoIO
    /\ lastGet = NoGet
    /\ lastSet = NoSet
    /\ timeouts = NoTimeouts
    /\ answers = <<>>
    /\ exit = NoExit
    /\ written = "none"

\* Scan step 1 on the file system
DiscoverTree ==
    /\ pc = "discover"
    /\ LET r == discoverDependencies(tree, config.Paths, <<>>)
       IN  /\ deps' = r.deps
           /\ pc' = IF r.err # NoErr THEN "done" ELSE AfterDiscover(Len(r.deps))
           /\ result' = IF r.err # NoErr
                        THEN Returned(<<>>, Wrap("failed to discover dependencies", r.err))
                        ELSE IF Len(r.deps) = 0 THEN Returned(<<>>, NoErr) ELSE result
    /\ UNCHANGED <<timeouts, tree, answers, exit, written, config, cacheOn, files, now, kevCatalog,
                   cvesByDep, osvI, findings, allKEVCVEs, epssScores, epssI, net, io, lastGet, lastSet>>

NextDiscover == DiscoverTree

SpecDiscover == InitDiscover /\ [][NextDiscover]_vars

(***************************************************************************)
(* OSVClient.QueryBatch on its own, for any chunk size, against a server   *)
(* that answers each chunk with one result per query in query order        *)
(***************************************************************************)
\* dependencies in one QueryBatch call
MaxBatchDeps == 3

\* chunk sizes tried in place of const batchSize
MaxBatchSize == 3

\* QueryBatch with chunks of the given size, from loop index i on: the
\* response to a chunk is the slice of the answers for its queries
RECURSIVE QueryBatchFrom(_, _, _, _)
QueryBatchFrom(ans, size, i, results) ==
    IF i >= Len(ans) THEN results
    ELSE LET end == Min(i + size, Len(ans))
         IN  QueryBatchFrom(ans, size, i + size,
                            MapBack(results, i, queryChunk(Slice(ans, i, end))))

InitBatch ==
    /\ pc = "batch"
    /\ \E n \in 0..MaxBatchDeps :
        /\ deps = [i \in 1..n |-> Dependency(i)]
        /\ answers \in [1..n -> OSVResults]
    /\ config = [EPSSThreshold |-> 0, NoCache |-> TRUE]
    /\ cacheOn = FALSE
    /\ files = NoFiles
    /\ now = 0
    /\ kevCatalog = EmptyMap
    /\ cvesByDep = EmptyMap
    /\ osvI = 0
    /\ findings = <<>>
    /\ allKEVCVEs = <<>>
    /\ epssScores = EmptyMap
    /\ epssI = 0
    /\ result = NoResult
    /\ net = NoCalls
    /\ io = NoIO
    /\ lastGet = NoGet
    /\ lastSet = NoSet
    /\ timeouts = NoTimeouts
    /\ tree = NoTree
    /\ exit = NoExit
    /\ written = "none"

\* one QueryBatch call; osvI is left at the value of i that ends the loop
CallQueryBatch ==
    /\ pc = "batch"
    /\ \E size \in 1..MaxBatchSize :
        /\ cvesByDep' = QueryBatchFrom(answers, size, 0, EmptyMap)
        /\ osvI' = size * ((Len(deps) + size - 1) \div size)
        /\ net' = [net EXCEPT !.osv = (Len(deps) + size - 1) \div size]
    /\ pc' = "batched"
    /\ UNCHANGED <<timeouts, tree, answers, exit, written, config, cacheOn, files, now, deps,
                   kevCatalog, findings, allKEVCVEs, epssScores, epssI, result, io, lastGet, lastSet>>

NextBatch == CallQueryBatch

SpecBatch == InitBatch /\ [][NextBatch]_vars

(***************************************************************************)
(* Properties                                                              *)
(***************************************************************************)
\* Scan returned findings and no error, after running all its stages
Completed == pc = "done" /\ result.returned /\ result.err = NoErr /\ deps # <<>>

KEVsOf(fs) == UNION {Range(fs[i].KEVs) : i \in DOMAIN fs}

\* the 0-based index of the dependency of a finding (Line is unique in deps)
DepIdxOf(f) == f.Dependency.Line - 1

CVEIDs(cves) == [k \in DOMAIN cves |-> cves[k].ID]

KEVIDs(kevs) == [k \in DOMAIN kevs |-> kevs[k].CVEID]

Unscored(kev) == [kev EXCEPT !.EPSSScore = 0, !.EPSSPercentile = 0]

\* C1: every Finding that Scan builds or returns has at least one KEV entry,
\* before and after the threshold filter.
C1_EveryFindingHasKEV ==
    /\ \A i \in DOMAIN findings : Len(findings[i].KEVs) >= 1
    /\ \A i \in DOMAIN result.findings : Len(result.findings[i].KEVs) >= 1

\* a scan that returned a finding while a dependency with CVEs but no KEV
\* match, or with all its KEV entries filtered out, was left out
C1_Witness ==
    /\ Completed
    /\ config.EPSSThreshold > 0
    /\ Len(result.findings) >= 1
    /\ Len(result.findings) < Cardinality(DOMAIN cvesByDep)

\* C2: with no threshold, a dependency is in the output iff a CVE that OSV
\* reported under its index is a key of the KEV catalog, and the KEV entries
\* of its Finding are the catalog entries of exactly those CVEs.
C2_OutputIffKEVMatch ==
    (Completed /\ config.EPSSThreshold = 0) =>
        /\ \A idx \in 0..(Len(deps) - 1) :
              (\E i \in DOMAIN result.findings : result.findings[i].Dependency = deps[idx + 1])
              <=> (idx \in DOMAIN cvesByDep
                   /\ \E k \in DOMAIN cvesByDep[idx] : cvesByDep[idx][k].ID \in DOMAIN kevCatalog)
        /\ \A i \in DOMAIN result.findings :
              LET f == result.findings[i]
              IN  /\ DepIdxOf(f) \in DOMAIN cvesByDep
                  /\ f.Dependency = deps[DepIdxOf(f) + 1]
                  /\ KEVIDs(f.KEVs) = SelectSeq(CVEIDs(cvesByDep[DepIdxOf(f)]),
                                                LAMBDA id : id \in DOMAIN kevCatalog)
                  /\ \A k \in DOMAIN f.KEVs : Unscored(f.KEVs[k]) = kevCatalog[f.KEVs[k].CVEID]

\* an unfiltered scan with a dependency in the output, one left out although
\* OSV reported a CVE for it, and a Finding with a CVE that is not in the catalog
C2_Witness ==
    /\ Completed
    /\ config.EPSSThreshold = 0
    /\ \E i \in DOMAIN result.findings : Len(result.findings[i].KEVs) < Len(result.findings[i].CVEs)
    /\ \E idx \in DOMAIN cvesByDep :
          \A i \in DOMAIN result.findings : result.findings[i].Dependency # deps[idx + 1]

\* C3: once the GET of the KEV catalog failed (after a cache miss), Scan has
\* returned the error of FetchKEVCatalog with no findings, and no OSV or EPSS
\* request was or will be issued.
C3_KEVFailureIsFatal ==
    net.kevFailed > 0 =>
        /\ pc = "done"
        /\ result.returned
        /\ Len(result.err) = 2
        /\ result.err[1] = "failed to fetch KEV catalog"
        /\ result.err[2] \in {"failed to fetch KEV data", "unexpected status code",
                               "failed to read response body"}
        /\ result.findings = <<>>
        /\ net.osv = 0
        /\ net.epss = 0

\* the GET failed with the cache enabled and missed
C3_Witness ==
    /\ net.kevFailed > 0
    /\ cacheOn
    /\ ~lastGet.ok
    /\ io.reads = 1
    /\ result.err[2] = "unexpected status code"

\* C4: once an OSV chunk request failed, QueryBatch has returned no result
\* map and Scan has returned an error and no findings.
C4_OSVFailureIsFatal ==
    net.osvFailed > 0 =>
        /\ pc = "done"
        /\ result.returned
        /\ result.err # NoErr
        /\ result.err[1] = "failed to query OSV"
        /\ result.findings = <<>>
        /\ cvesByDep = EmptyMap
        /\ findings = <<>>
        /\ net.epss = 0

\* the second chunk failed to decode after the first one had succeeded
C4_Witness ==
    /\ net.osvFailed = 1
    /\ net.osv = 2
    /\ result.err = <<"failed to query OSV", "failed to query OSV batch", "invalid JSON">>

NumChunks(n, size) == (n + size - 1) \div size

\* C5: an EPSS failure never makes Scan fail: FetchScores requests every
\* chunk whatever failed before, Scan returns no error, and when every chunk
\* failed the KEV entries leave enrichment all present with score and
\* percentile zero, which is how the returned ones still are.
C5_EPSSNeverFatal ==
    /\ net.epss > 0 => pc \in {"epss", "enrich", "filter", "done"}
    /\ (net.epss > 0 /\ pc \in {"enrich", "filter", "done"}) =>
          net.epss = NumChunks(Len(allKEVCVEs), chunkSize)
    /\ (net.epss > 0 /\ pc = "done") => (result.returned /\ result.err = NoErr)
    /\ (net.epss > 0 /\ net.epssFailed = net.epss /\ pc = "filter") =>
          /\ findings # <<>>
          /\ \A i \in DOMAIN findings :
                /\ KEVIDs(findings[i].KEVs) = SelectSeq(CVEIDs(findings[i].CVEs),
                                                        LAMBDA id : id \in DOMAIN kevCatalog)
                /\ \A j \in DOMAIN findings[i].KEVs :
                      findings[i].KEVs[j].EPSSScore = 0 /\ findings[i].KEVs[j].EPSSPercentile = 0
    /\ (net.epss > 0 /\ net.epssFailed = net.epss /\ pc = "done") =>
          /\ \A kev \in KEVsOf(result.findings) : kev.EPSSScore = 0 /\ kev.EPSSPercentile = 0
          /\ config.EPSSThreshold = 0 => result.findings = findings /\ findings # <<>>

\* a scan that returned findings after a failed first and a failed second chunk
C5_Witness ==
    /\ Completed
    /\ net.epss >= 2
    /\ net.epssFailed = net.epss
    /\ result.findings # <<>>

\* the findings of step 4 for one of the orders range may take
CrossReferenced ==
    CrossReference(deps, cvesByDep, kevCatalog, CHOOSE order \in Perms(DOMAIN cvesByDep) : TRUE)

\* the (dependency, KEV CVE ID) pairs of a finding list
Pairs(fs) == UNION {{<<fs[i].Dependency, fs[i].KEVs[j].CVEID>> : j \in DOMAIN fs[i].KEVs} : i \in DOMAIN fs}

\* C6 as stated: for every configuration the pairs of the final findings are
\* those of the scan in which every EPSS chunk fails.
C6_SameShapeAnyThreshold ==
    Completed => Pairs(result.findings) = Pairs(Filtered(Enriched(CrossReferenced, EmptyMap), config.EPSSThreshold))

\* C6 (amended): a skipped EPSS chunk does not change the findings that leave
\* enrichment: they hold the pairs of the cross-reference whatever failed,
\* an entry without EPSS row being present with score and percentile zero;
\* and with no threshold configured the pairs of the final findings are those
\* of the scan in which every EPSS chunk fails.
C6_SameShapeBeforeFilter ==
    /\ pc = "filter" =>
          /\ Pairs(findings) = Pairs(CrossReferenced)
          /\ \A kev \in KEVsOf(findings) :
                kev.CVEID \notin DOMAIN epssScores => kev.EPSSScore = 0 /\ kev.EPSSPercentile = 0
    /\ (Completed /\ config.EPSSThreshold = 0) =>
          Pairs(result.findings) = Pairs(Filtered(Enriched(CrossReferenced, EmptyMap), config.EPSSThreshold))

\* an unfiltered scan in which one chunk failed and one succeeded returned an
\* entry with its score and an entry left at zero
C6_Witness ==
    /\ Completed
    /\ config.EPSSThreshold = 0
    /\ net.epssFailed >= 1
    /\ net.epss > net.epssFailed
    /\ \E kev \in KEVsOf(result.findings) : kev.CVEID \notin DOMAIN epssScores /\ kev.EPSSScore = 0
    /\ \E kev \in KEVsOf(result.findings) : kev.EPSSScore > 0

\* increasing maps from 1..n onto the index set S
OrderedOnto(n, S) ==
    {m \in [1..n -> S] : (\A a, b \in 1..n : a < b => m[a] < m[b]) /\ Range(m) = S}

\* C7: with a positive threshold the filter step removes from each Finding
\* exactly the KEV entries with a score strictly below the threshold, keeps
\* the others in order, and drops exactly the Findings left without entry.
C7_FilterRemovesBelowThreshold ==
    [][(pc = "filter" /\ config.EPSSThreshold > 0) =>
        LET t == config.EPSSThreshold
            rest == [i \in DOMAIN findings |->
                        SelectSeq(findings[i].KEVs, LAMBDA kev : ~(kev.EPSSScore < t))]
            left == {i \in DOMAIN findings : rest[i] # <<>>}
        IN  /\ result'.findings = findings'
            /\ Len(findings') = Cardinality(left)
            /\ \E m \in OrderedOnto(Len(findings'), left) :
                  \A j \in DOMAIN findings' :
                     findings'[j] = [findings[m[j]] EXCEPT !.KEVs = rest[m[j]]]]_vars

\* a filtered scan that kept an entry whose score equals the threshold,
\* removed an entry from a Finding it returned, and dropped a Finding
C7_Witness ==
    /\ Completed
    /\ config.EPSSThreshold > 0
    /\ \E kev \in KEVsOf(result.findings) : kev.EPSSScore = config.EPSSThreshold
    /\ \E i \in DOMAIN result.findings :
          Len(result.findings[i].KEVs) <
             Len(SelectSeq(result.findings[i].CVEs, LAMBDA cve : cve.ID \in DOMAIN kevCatalog))
    /\ Len(result.findings) < Len(CrossReferenced)

TestThresholds == {0, 5, 100, 200}

\* the KEV entries retained, with their dependency and position
Retained(fs) == UNION {{<<fs[i].Dependency, fs[i].KEVs[j]>> : j \in DOMAIN fs[i].KEVs} : i \in DOMAIN fs}

RECURSIVE KEVCount(_)
KEVCount(fs) == IF fs = <<>> THEN 0 ELSE Len(Head(fs).KEVs) + KEVCount(Tail(fs))

\* C8: on the findings that reach the filter, a higher threshold retains a
\* subset (and no more entries) of what a lower one retains, and threshold 0
\* returns them unfiltered.
C8_ThresholdMonotone ==
    pc = "filter" =>
        /\ \A t1, t2 \in TestThresholds :
              t1 <= t2 =>
                 /\ Retained(Filtered(findings, t2)) \subseteq Retained(Filtered(findings, t1))
                 /\ KEVCount(Filtered(findings, t2)) <= KEVCount(Filtered(findings, t1))
        /\ Filtered(findings, 0) = findings

\* findings of which a threshold retains some entries and a higher one fewer
C8_Witness ==
    /\ pc = "filter"
    /\ \E t1, t2 \in TestThresholds :
          /\ 0 < t1 /\ t1 < t2
          /\ KEVCount(Filtered(findings, t2)) < KEVCount(Filtered(findings, t1))
          /\ KEVCount(Filtered(findings, t2)) > 0

\* a Get call, a Set call of the cache specification
GetCalled == pc = "cache" /\ io'.reads = io.reads + 1

SetCalled == pc = "cache" /\ io'.writes = io.writes + 1

\* C9: a Set that succeeds leaves the file with the data and the time of
\* the call, also over a stale entry; while the last Set succeeded, a Get
\* whose read does not fail returns (that data, true) when at most TTL has
\* passed since, and found=false later, the file being still there.
C9_CacheRoundTrip ==
    [][/\ (SetCalled /\ lastSet'.ok) =>
             /\ files'[Path(kevURL)] = [exists |-> TRUE, modTime |-> now, data |-> lastSet'.data]
             /\ Get(files', now', kevURL, TRUE) = [data |-> lastSet'.data, ok |-> TRUE]
       /\ (GetCalled /\ lastSet.ok /\ io'.readErrs = io.readErrs) =>
             /\ files[Path(kevURL)].exists
             /\ files' = files
             /\ IF now - lastSet.at <= CacheTTL
                THEN lastGet' = [data |-> lastSet.data, ok |-> TRUE]
                ELSE ~lastGet'.ok]_vars

\* a Get found the data of a Set made after the TTL of the first entry had passed
C9_Witness ==
    /\ pc = "cache"
    /\ io.writes = 2
    /\ io.reads = 2
    /\ lastSet.ok
    /\ lastSet.at > CacheTTL
    /\ lastGet = [data |-> lastSet.data, ok |-> TRUE]
    /\ lastSet.data.json
    /\ now - lastSet.at = 0

\* a Get at exactly TTL after the Set found the data
C9_WitnessAtTTL ==
    /\ pc = "cache"
    /\ lastSet.ok
    /\ now - lastSet.at = CacheTTL
    /\ lastGet = [data |-> lastSet.data, ok |-> TRUE]
    /\ lastSet.data.json

\* a FetchKEVCatalog call of the client specification
FetchCalled == pc = "client" /\ net'.fetches = net.fetches + 1

\* C10: a FetchKEVCatalog call issues no GET when Cache.Get returned the
\* entry (it then parses those bytes) and exactly one GET otherwise: when
\* there is no entry, when it is stale, and when the client has no cache;
\* without cache the call makes no cache call and leaves the files alone.
C10_AtMostOneGet ==
    [][FetchCalled =>
        LET file == files[Path(kevURL)]
            fresh == file.exists /\ now - file.modTime <= CacheTTL
            hit == cacheOn /\ fresh /\ io'.readErrs = io.readErrs
        IN  /\ net'.kev = IF hit THEN net.kev ELSE net.kev + 1
            /\ hit => /\ lastGet' = [data |-> file.data, ok |-> TRUE]
                      /\ files' = files
                      /\ io'.writes = io.writes
                      /\ IF file.data.json
                         THEN result'.err = NoErr /\ kevCatalog' = parseKEVData(file.data).catalog
                         ELSE result'.err = <<"failed to parse KEV data">>
            /\ ~cacheOn => (io' = io /\ files' = files /\ lastGet' = lastGet /\ lastSet' = lastSet)]_vars

\* a client with cache made a call answered from the cache after a call that
\* went to the network, and a client found a stale entry and went to the network
C10_Witness ==
    /\ pc = "client"
    /\ cacheOn
    /\ net.fetches = 2
    /\ net.kev = 1
    /\ io.writes = 1
    /\ lastGet.ok
    /\ kevCatalog # EmptyMap

C10_WitnessStale ==
    /\ pc = "client"
    /\ cacheOn
    /\ net.fetches = 1
    /\ net.kev = 1
    /\ files[Path(kevURL)].exists
    /\ now > CacheTTL
    /\ lastSet.at = now
    /\ lastSet.ok

C10_WitnessNoCache ==
    /\ pc = "client"
    /\ ~cacheOn
    /\ files[Path(kevURL)].exists
    /\ net.fetches = 2
    /\ net.kev = 2

\* C11: when cache.New fails, scanner.New returns no error and the scanner
\* runs without cache: no cache call is made and no file written, every
\* FetchKEVCatalog call goes to the network, and no error Scan returns
\* stems from the cache.
C11_CacheInitFailureNotFatal ==
    io.newErrs > 0 =>
        /\ pc # "new"
        /\ ~cacheOn
        /\ io.reads = 0 /\ io.writes = 0
        /\ files = NoFiles
        /\ lastGet = NoGet /\ lastSet = NoSet
        /\ net.kev = net.fetches
        /\ pc = "discover" => ~result.returned
        /\ (result.returned /\ result.err # NoErr) =>
              result.err[1] \in {"failed to discover dependencies", "failed to fetch KEV catalog",
                                 "failed to query OSV"}

\* a scan whose cache could not be initialised fetched the catalog and
\* returned findings
C11_Witness ==
    /\ Completed
    /\ io.newErrs = 1
    /\ ~config.NoCache
    /\ net.kev = 1
    /\ kevCatalog # EmptyMap
    /\ result.findings # <<>>

\* discoverDependencies returned an error
DiscoverFailed ==
    result.returned /\ result.err # NoErr /\ result.err[1] = "failed to discover dependencies"

\* C12: when discovery yields no dependency, Scan has returned the empty
\* finding list and no error, and no KEV, OSV or EPSS request was issued.
C12_ZeroDependencies ==
    (pc \notin {"new", "discover"} /\ deps = <<>> /\ ~DiscoverFailed) =>
        /\ pc = "done"
        /\ result = Returned(<<>>, NoErr)
        /\ net = NoCalls
        /\ cvesByDep = EmptyMap /\ findings = <<>>

\* a scan of paths without dependencies returned, the cache being enabled
C12_Witness ==
    /\ pc = "done"
    /\ deps = <<>>
    /\ result = Returned(<<>>, NoErr)
    /\ cacheOn
    /\ io.reads = 0

\* the files discovery visits from the paths on, in order: those given as
\* scan path and those a walk reaches outside pruned directories
RECURSIVE Visited(_, _)
Visited(t, todo) ==
    IF todo = <<>> THEN <<>>
    ELSE IF t[Head(todo)].kind = "dir"
         THEN IF Pruned(t[Head(todo)].name) THEN Visited(t, Tail(todo))
              ELSE Visited(t, t[Head(todo)].entries \o Tail(todo))
         ELSE IF t[Head(todo)].kind = "file" THEN <<Head(todo)>> \o Visited(t, Tail(todo))
         ELSE Visited(t, Tail(todo))

\* the dependencies of the visited manifest files that read and parse
GoodDeps(t, paths) ==
    LET v == Visited(t, paths)
    IN  FlattenSeq([k \in DOMAIN v |->
            IF CanParse(t[v[k]].name) /\ t[v[k]].state = "ok"
            THEN ParsedDeps(v[k], t[v[k]].name) ELSE <<>>])

\* C13: a manifest file that cannot be read or parsed is skipped, whether a
\* walk reached it or it was given as a scan path: when every scan path can
\* be stat'ed (and every directory listed) Scan step 1 does not fail and
\* collects the dependencies of the other files; a scan path that cannot be
\* stat'ed makes it fail.
C13_FileFailuresSkipped ==
    pc # "discover" =>
        /\ (\E i \in DOMAIN config.Paths : tree[config.Paths[i]].kind = "none") => DiscoverFailed
        /\ (\A i \in DOMAIN config.Paths :
                tree[config.Paths[i]].kind # "none" /\ tree[config.Paths[i]].readable) =>
              /\ ~DiscoverFailed
              /\ deps = GoodDeps(tree, config.Paths)

\* C14: when each chunk response has one result per query in query order,
\* QueryBatch returns for every chunk size the map a single unchunked query
\* gives: its keys lie in 0..N-1 and key s+i holds result i of the chunk
\* that starts at s, that is the result of dependency s+i.
C14_ChunkingTransparent ==
    pc = "batched" =>
        /\ cvesByDep = queryChunk(answers)
        /\ DOMAIN cvesByDep \subseteq 0..(Len(deps) - 1)
        /\ \A k \in 0..(Len(deps) - 1) :
              IF CVEInfosOfResult(answers[k + 1]) = <<>>
              THEN k \notin DOMAIN cvesByDep
              ELSE k \in DOMAIN cvesByDep /\ cvesByDep[k] = CVEInfosOfResult(answers[k + 1])

\* a call that took two chunks, the last one short, and stored CVEs found by
\* the second chunk that differ from those at the same place of the first
C14_Witness ==
    /\ pc = "batched"
    /\ net.osv = 2
    /\ osvI > Len(deps)
    /\ 2 \in DOMAIN cvesByDep
    /\ 0 \in DOMAIN cvesByDep
    /\ cvesByDep[2] # cvesByDep[0]

(***************************************************************************)
(* cmd: Execute and runCheck around scanner.New and Scanner.Scan           *)
(***************************************************************************)
\* the values of --timeout, in seconds
FlagTimeouts == {30, 60, 120}

\* the values of --output: stdout, or a file path
OutputFiles == {"", "report.out"}

OutputFormats == {"terminal", "json", "sarif"}

\* reporter.Get: the reporter a format name selects
reporterGet(format) ==
    CASE format = "json" -> "JSONReporter"
      [] format = "sarif" -> "SARIFReporter"
      [] OTHER -> "TerminalReporter"

\* the findings a scan may hand to runCheck: none, one, or two
ScanFindings ==
    LET ds == [i \in 1..2 |-> Dependency(i)]
        byDep == queryChunk(<<<<VulnCVE>>, <<VulnGHSA>>>>)
        catalog == [id \in {CVE1, CVE2} |->
                       KEVInfoOf(CHOOSE v \in KEVEntries : v.cveID = id /\ v.dateAdded # "")]
    IN  {<<>>, <<FindingOf(ds, byDep, catalog, 0)>>,
         <<FindingOf(ds, byDep, catalog, 0), FindingOf(ds, byDep, catalog, 1)>>}

\* the errors Scan returns
ScanErrors ==
    {<<"failed to discover dependencies", "failed to stat path">>,
     <<"failed to fetch KEV catalog", "failed to fetch KEV data">>,
     <<"failed to query OSV", "post failed">>}

\* ExitCode exiting 1 on findings whatever --no-fail says
ExitCodeIgnoringNoFail(n, failOnKEV) == IF n > 0 THEN 1 ELSE 0

\* runCheck: "if len(findings) > 0 && config.FailOnKEV { os.Exit(1) }",
\* else return nil and the process ends with 0
ExitCode(n, failOnKEV) == IF n > 0 /\ failOnKEV THEN 1 ELSE 0

InitCmd ==
    /\ pc = "new"
    /\ config \in [EPSSThreshold : {0}, NoCache : BOOLEAN, FailOnKEV : BOOLEAN,
                   OutputFile : OutputFiles, OutputFormat : OutputFormats,
                   Timeout : FlagTimeouts]
    /\ cacheOn = FALSE
    /\ files = NoFiles
    /\ now = 0
    /\ deps = <<>>
    /\ kevCatalog = EmptyMap
    /\ cvesByDep = EmptyMap
    /\ osvI = 0
    /\ findings = <<>>
    /\ allKEVCVEs = <<>>
    /\ epssScores = EmptyMap
    /\ epssI = 0
    /\ result = NoResult
    /\ net = NoCalls
    /\ io = NoIO
    /\ lastGet = NoGet
    /\ lastSet = NoSet
    /\ timeouts = NoTimeouts
    /\ tree = NoTree
    /\ answers = <<>>
    /\ exit = NoExit
    /\ written = "none"

\* runCheck: "findings, err := s.Scan(ctx)", Scan seen from its caller
CmdScan ==
    /\ pc = "discover"
    /\ \/ \E err \in ScanErrors :
            /\ result' = Returned(<<>>, Wrap("scan failed", err))
            /\ pc' = "fail"
       \/ \E fs \in ScanFindings :
            /\ result' = Returned(fs, NoErr)
            /\ pc' = "report"
    /\ UNCHANGED <<timeouts, tree, answers, exit, written, config, cacheOn, files, now, deps, kevCatalog,
                   cvesByDep, osvI, findings, allKEVCVEs, epssScores, epssI, net, io, lastGet, lastSet>>

\* runCheck: "output, err := rep.Report(findings)"
CmdReport ==
    /\ pc = "report"
    /\ \E marshalOK \in BOOLEAN :
        IF marshalOK \/ reporterGet(config.OutputFormat) = "TerminalReporter"
        THEN pc' = "write" /\ UNCHANGED result
        ELSE /\ pc' = "fail"
             /\ result' = [result EXCEPT !.err = <<"failed to generate report", "json: unsupported value">>]
    /\ UNCHANGED <<timeouts, tree, answers, exit, written, config, cacheOn, files, now, deps, kevCatalog,
                   cvesByDep, osvI, findings, allKEVCVEs, epssScores, epssI, net, io, lastGet, lastSet>>

\* runCheck: os.WriteFile into --output, whose error is returned, or
\* fmt.Print to stdout, whose result is discarded
CmdWrite ==
    /\ pc = "write"
    /\ IF config.OutputFile # ""
       THEN \E writeOK \in BOOLEAN :
            IF writeOK
            THEN written' = "file" /\ pc' = "exit" /\ UNCHANGED result
            ELSE /\ pc' = "fail"
                 /\ result' = [result EXCEPT !.err = <<"failed to write output file", "open failed">>]
                 /\ UNCHANGED written
       ELSE written' = "stdout" /\ pc' = "exit" /\ UNCHANGED result
    /\ UNCHANGED <<timeouts, tree, answers, exit, config, cacheOn, files, now, deps, kevCatalog,
                   cvesByDep, osvI, findings, allKEVCVEs, epssScores, epssI, net, io, lastGet, lastSet>>

\* runCheck's last statements: os.Exit(1), or return nil to Execute
CmdExit ==
    /\ pc = "exit"
    /\ exit' = [exited |-> TRUE, code |-> ExitCode(Len(result.findings), config.FailOnKEV)]
    /\ pc' = "exited"
    /\ UNCHANGED <<timeouts, tree, answers, written, config, cacheOn, files, now, deps, kevCatalog, result,
                   cvesByDep, osvI, findings, allKEVCVEs, epssScores, epssI, net, io, lastGet, lastSet>>

\* Execute: "if err := rootCmd.Execute(); err != nil { os.Exit(2) }", err
\* being what runCheck returned, scanner.New's error wrapped included
CmdFail ==
    /\ pc = "fail" \/ (pc = "done" /\ result.err # NoErr)
    /\ exit' = [exited |-> TRUE, code |-> 2]
    /\ result' = IF pc = "done"
                 THEN [result EXCEPT !.err = Wrap("failed to initialize scanner", result.err)]
                 ELSE result
    /\ pc' = "exited"
    /\ UNCHANGED <<timeouts, tree, answers, written, config, cacheOn, files, now, deps, kevCatalog,
                   cvesByDep, osvI, findings, allKEVCVEs, epssScores, epssI, net, io, lastGet, lastSet>>

NextCmd ==
    \/ New
    \/ CmdScan
    \/ CmdReport
    \/ CmdWrite
    \/ CmdExit
    \/ CmdFail

SpecCmd == InitCmd /\ [][NextCmd]_vars

\* runCheck returned an error, whose outermost message names the step
OperationalError ==
    /\ result.err # NoErr
    /\ Head(result.err) \in {"failed to initialize scanner", "scan failed",
                             "failed to generate report", "failed to write output file"}

\* C15: the process ends with 0 when the scan succeeded and there is no
\* finding or FailOnKEV is off, with 1 when it succeeded with a finding and
\* FailOnKEV is on, with 2 when New, Scan, Report or the write of the
\* output file returned an error; when it ends with 1 the report has
\* been written to the configured destination
C15_ExitCodes ==
    exit.exited =>
        /\ exit.code \in {0, 1, 2}
        /\ exit.code = 2 <=> result.err # NoErr
        /\ result.err # NoErr => OperationalError
        /\ exit.code = 1 <=> /\ result.err = NoErr
                             /\ Len(result.findings) > 0
                             /\ config.FailOnKEV
        /\ exit.code = 0 <=> /\ result.err = NoErr
                             /\ Len(result.findings) = 0 \/ ~config.FailOnKEV
        /\ exit.code = 1 => written = (IF config.OutputFile = "" THEN "stdout" ELSE "file")

C15_Witness ==
    /\ exit.exited /\ exit.code = 1
    /\ written = "file"
    /\ Len(result.findings) = 2

C15_WitnessNoFail ==
    /\ exit.exited /\ exit.code = 0
    /\ Len(result.findings) > 0 /\ ~config.FailOnKEV

C15_WitnessError ==
    /\ exit.exited /\ exit.code = 2
    /\ Head(result.err) = "failed to write output file"

\* C16: once scanner.New has built the clients, the timeout of the KEV,
\* the OSV and the EPSS HTTP client is the configured Config.Timeout
C16_ClientsUseConfigTimeout ==
    pc # "new" =>
        /\ timeouts.kev = config.Timeout
        /\ timeouts.osv = config.Timeout
        /\ timeouts.epss = config.Timeout

\* C17: each returned Finding holds the dependency and the CVE list of one
\* index of the OSV result map, and the Findings are in increasing order
\* of that index (so that equal inputs and responses give equal output)
C17_FindingsInIndexOrder ==
    Completed =>
        /\ \A i \in DOMAIN result.findings :
              LET f == result.findings[i]
              IN  /\ DepIdxOf(f) \in DOMAIN cvesByDep
                  /\ f.Dependency = deps[DepIdxOf(f) + 1]
                  /\ f.CVEs = cvesByDep[DepIdxOf(f)]
        /\ \A i, j \in DOMAIN result.findings :
              i < j => DepIdxOf(result.findings[i]) < DepIdxOf(result.findings[j])

\* the position of a stage in Scan; the scan has ended at "done" and "panic"
StageRank(p) ==
    CASE p = "new" -> 0
      [] p = "discover" -> 1
      [] p = "kev" -> 2
      [] p = "osv" -> 3
      [] p = "xref" -> 4
      [] p = "epss" -> 5
      [] p = "enrich" -> 6
      [] p = "filter" -> 7
      [] OTHER -> 8

\* C18: every step of a scan moves to a later stage or, inside the OSV and
\* the EPSS chunk loop, to the next chunk: no stage is entered again, no
\* step follows the return, a step sends at most one request and a failed
\* KEV or OSV request ends the scan, the offset of every chunk request is
\* past the one before, and a step that sets an error returns it
C18_StagesInOrderNoRetry ==
    [][/\ pc \notin {"done", "panic"}
       /\ StageRank(pc') >= StageRank(pc)
       /\ StageRank(pc') = StageRank(pc) =>
             \/ pc = "osv" /\ osvI' > osvI /\ net'.osvFailed = net.osvFailed
             \/ pc = "epss" /\ epssI' > epssI
       /\ net'.kev + net'.osv + net'.epss <= net.kev + net.osv + net.epss + 1
       /\ net'.kev > net.kev => pc = "kev" /\ net.kev = 0
       /\ net'.osv > net.osv => pc = "osv" /\ (osvI' > osvI \/ pc' = "done")
       /\ net'.epss > net.epss => pc = "epss" /\ epssI' > epssI
       /\ (net'.kevFailed > net.kevFailed \/ net'.osvFailed > net.osvFailed) =>
             pc' = "done" /\ result'.err # NoErr
       /\ result'.err # NoErr => pc' = "done" /\ result'.returned /\ result'.findings = <<>>
       /\ pc' = "done" => result'.returned]_vars

\* a scan that ended on the failure of its second OSV chunk, after one
\* request for the catalog and one for the first chunk
C18_Witness ==
    /\ pc = "done"
    /\ result.err # NoErr
    /\ net.kev = 1 /\ net.osv = 2 /\ net.osvFailed = 1 /\ net.epss = 0
    /\ osvI = batchSize

\* a scan that went through every stage, with two EPSS chunks one of which failed
C18_WitnessAllStages ==
    /\ Completed
    /\ net.osv >= 1 /\ net.epss = 2 /\ net.epssFailed = 1

\* the number of positions of s that hold x
Occurrences(s, x) == Cardinality({k \in DOMAIN s : s[k] = x})

\* C19: FetchScores is entered exactly when a CVE matched the catalog, it
\* is called once, and the list passed to it holds each matched CVE ID
\* exactly once
C19_EPSSCalledOnceDeduplicated ==
    /\ pc = "epss" =>
          /\ Range(allKEVCVEs) = {kev.CVEID : kev \in KEVsOf(findings)}
          /\ allKEVCVEs # <<>>
          /\ \A id \in Range(allKEVCVEs) : Occurrences(allKEVCVEs, id) = 1
    /\ (pc \in {"enrich", "filter"} /\ KEVsOf(findings) = {}) => net.epss = 0
    /\ (pc \in {"enrich", "filter"} /\ KEVsOf(findings) # {}) => net.epss >= 1

\* the EPSSScore values that the decoding of one row for id gives
RowScores(id) ==
    {[Score |-> ParseFloat(r.EPSS), Percentile |-> ParseFloat(r.Percentile)] : r \in {x \in EPSSRows : x.CVE = id}}

\* C20: after enrichment a KEV entry whose CVE ID is in the score map has
\* the score and the percentile of that map entry, which are those of one
\* row for that CVE ID; an entry whose CVE ID is not in the map has both
\* at zero; and a returned entry has both at zero or both from one row
C20_ScoreAndPercentileTogether ==
    /\ \A id \in DOMAIN epssScores : epssScores[id] \in RowScores(id)
    /\ pc = "filter" =>
          \A kev \in KEVsOf(findings) :
             IF kev.CVEID \in DOMAIN epssScores
             THEN /\ kev.EPSSScore = epssScores[kev.CVEID].Score
                  /\ kev.EPSSPercentile = epssScores[kev.CVEID].Percentile
             ELSE kev.EPSSScore = 0 /\ kev.EPSSPercentile = 0
    /\ \A kev \in KEVsOf(findings) \cup KEVsOf(result.findings) :
          \/ kev.EPSSScore = 0 /\ kev.EPSSPercentile = 0
          \/ [Score |-> kev.EPSSScore, Percentile |-> kev.EPSSPercentile] \in RowScores(kev.CVEID)

\* enrichment has written the later of two rows for one CVE into an entry
\* and left another entry, whose chunk failed, at zero
C20_Witness ==
    /\ pc = "filter"
    /\ net.epss = 2 /\ net.epssFailed = 1
    /\ \E kev \in KEVsOf(findings) :
          /\ kev.CVEID \in DOMAIN epssScores
          /\ kev.EPSSScore > 0 /\ kev.EPSSPercentile > kev.EPSSScore
    /\ \E kev \in KEVsOf(findings) : kev.CVEID \notin DOMAIN epssScores

(***************************************************************************)
(* queryChunk decoding a response with one result that holds one entry     *)
(***************************************************************************)
\* the longest alias list of an entry
MaxAliases == 3

\* the identifiers an entry may carry as ID or alias
VulnIDs == {CVE1, CVE2, GHSA1}

\* the vulnerability entries of a response
ExtractVulns ==
    {[ID |-> id, Aliases |-> as, Summary |-> "advisory"] : id \in VulnIDs, as \in SeqsUpTo(VulnIDs, MaxAliases)}

InitExtract ==
    /\ pc = "decode"
    /\ deps = <<Dependency(1)>>
    /\ answers \in {<<<<v>>>> : v \in ExtractVulns}
    /\ config = [EPSSThreshold |-> 0, NoCache |-> TRUE]
    /\ cacheOn = FALSE
    /\ files = NoFiles
    /\ now = 0
    /\ kevCatalog = EmptyMap
    /\ cvesByDep = EmptyMap
    /\ osvI = 0
    /\ findings = <<>>
    /\ allKEVCVEs = <<>>
    /\ epssScores = EmptyMap
    /\ epssI = 0
    /\ result = NoResult
    /\ net = NoCalls
    /\ io = NoIO
    /\ lastGet = NoGet
    /\ lastSet = NoSet
    /\ timeouts = NoTimeouts
    /\ tree = NoTree
    /\ exit = NoExit
    /\ written = "none"

\* queryChunk: the loops over batchResp.Results and result.Vulns
Decode ==
    /\ pc = "decode"
    /\ cvesByDep' = queryChunk(answers)
    /\ pc' = "decoded"
    /\ UNCHANGED <<timeouts, tree, answers, exit, written, config, cacheOn, files, now, deps, osvI,
                   kevCatalog, findings, allKEVCVEs, epssScores, epssI, result, net, io, lastGet, lastSet>>

NextExtract == Decode

SpecExtract == InitExtract /\ [][NextExtract]_vars

\* the first position of x in s
FirstIndex(s, x) == CHOOSE k \in DOMAIN s : s[k] = x /\ \A m \in DOMAIN s : s[m] = x => k <= m

\* C21: the CVE IDs decoded from one entry are the identifiers among its
\* ID and aliases that start with "CVE-", each once, in the order of their
\* first occurrence with the entry's own ID first; and an entry without
\* such an identifier leaves no key for the dependency
C21_ExtractDistinctInOrder ==
    pc = "decoded" =>
        LET v == answers[1][1]
            all == <<v.ID>> \o v.Aliases
            out == IF 0 \in DOMAIN cvesByDep THEN CVEIDs(cvesByDep[0]) ELSE <<>>
        IN  /\ Range(out) = {x \in Range(all) : HasPrefixCVE(x)}
            /\ \A a, b \in DOMAIN out : a # b => out[a] # out[b]
            /\ \A a, b \in DOMAIN out : a < b => FirstIndex(all, out[a]) < FirstIndex(all, out[b])
            /\ HasPrefixCVE(v.ID) => out # <<>> /\ out[1] = v.ID
            /\ (\A x \in Range(all) : ~HasPrefixCVE(x)) => DOMAIN cvesByDep = {}
            /\ 0 \in DOMAIN cvesByDep => cvesByDep[0] # <<>>

\* an entry filed under a CVE ID that lists itself and another CVE twice
C21_Witness ==
    /\ pc = "decoded"
    /\ answers[1][1].ID = CVE1
    /\ answers[1][1].Aliases = <<CVE2, CVE1, CVE2>>
    /\ CVEIDs(cvesByDep[0]) = <<CVE1, CVE2>>

\* an entry without CVE identifier
C21_WitnessNoCVE ==
    /\ pc = "decoded"
    /\ answers[1][1].ID = GHSA1
    /\ answers[1][1].Aliases = <<GHSA1>>
    /\ DOMAIN cvesByDep = {}

(***************************************************************************)
(* parseKEVData on the bytes FetchKEVCatalog hands to it                   *)
(***************************************************************************)
\* the entries of a document: repeated cveIDs, dates in and out of the
\* layout "2006-01-02", and both ransomware markers
ParseEntries ==
    [cveID : {CVE1, CVE2},
     dateAdded : {"2021-11-03", "", "11/03/2021"},
     dueDate : {"2021-11-17", "12/24/2021"},
     knownRansomwareCampaignUse : {"Known", "Unknown"}]

ParseBodies ==
    {NoBytes} \cup {[json |-> TRUE, vulnerabilities |-> vs] : vs \in SeqsUpTo(ParseEntries, MaxKEVEntries)}

InitParse ==
    /\ pc = "parse"
    /\ lastGet \in {[data |-> b, ok |-> TRUE] : b \in ParseBodies}
    /\ config = [EPSSThreshold |-> 0, NoCache |-> TRUE]
    /\ cacheOn = FALSE
    /\ files = NoFiles
    /\ now = 0
    /\ deps = <<>>
    /\ kevCatalog = EmptyMap
    /\ cvesByDep = EmptyMap
    /\ osvI = 0
    /\ findings = <<>>
    /\ allKEVCVEs = <<>>
    /\ epssScores = EmptyMap
    /\ epssI = 0
    /\ result = NoResult
    /\ net = NoCalls
    /\ io = NoIO
    /\ lastSet = NoSet
    /\ timeouts = NoTimeouts
    /\ tree = NoTree
    /\ answers = <<>>
    /\ exit = NoExit
    /\ written = "none"

\* FetchKEVCatalog: "return c.parseKEVData(data)"
Parse ==
    /\ pc = "parse"
    /\ kevCatalog' = parseKEVData(lastGet.data).catalog
    /\ result' = Returned(<<>>, parseKEVData(lastGet.data).err)
    /\ pc' = "parsed"
    /\ UNCHANGED <<timeouts, tree, answers, exit, written, config, cacheOn, files, now, deps, cvesByDep, osvI,
                   findings, allKEVCVEs, epssScores, epssI, net, io, lastGet, lastSet>>

NextParse == Parse

SpecParse == InitParse /\ [][NextParse]_vars

\* the strings of the model that have the layout YYYY-MM-DD
ISODates == {"2021-11-03", "2021-11-17", "2021-12-10"}

\* the date field of a parsed entry for the string s of the document
DateFieldOK(field, s) ==
    IF s \in ISODates THEN field # ZeroDate /\ field = ParseDate(s) ELSE field = ZeroDate

\* C22: a document that decodes is parsed without error into one entry per
\* distinct cveID, which is built from the last occurrence of the cveID:
\* its dates are those of that occurrence, the zero date where the string
\* is not a YYYY-MM-DD date, and RansomwareUse says whether its
\* knownRansomwareCampaignUse is "Known"
C22_LastEntryWinsZeroDates ==
    (pc = "parsed" /\ lastGet.data.json) =>
        LET vs == lastGet.data.vulnerabilities
        IN  /\ result.err = NoErr
            /\ DOMAIN kevCatalog = {vs[i].cveID : i \in DOMAIN vs}
            /\ \A i \in DOMAIN vs :
                  (\A j \in DOMAIN vs : j > i => vs[j].cveID # vs[i].cveID) =>
                      LET kev == kevCatalog[vs[i].cveID]
                      IN  /\ kev.CVEID = vs[i].cveID
                          /\ DateFieldOK(kev.DateAdded, vs[i].dateAdded)
                          /\ DateFieldOK(kev.DueDate, vs[i].dueDate)
                          /\ kev.RansomwareUse <=> vs[i].knownRansomwareCampaignUse = "Known"

\* a document whose two entries for one cveID differ in every field, the
\* last with two strings that are not dates
C22_Witness ==
    /\ pc = "parsed"
    /\ lastGet.data.json
    /\ Len(lastGet.data.vulnerabilities) = 2
    /\ lastGet.data.vulnerabilities[1] = [cveID |-> CVE1, dateAdded |-> "2021-11-03", dueDate |-> "2021-11-17",
                                          knownRansomwareCampaignUse |-> "Known"]
    /\ lastGet.data.vulnerabilities[2] = [cveID |-> CVE1, dateAdded |-> "11/03/2021", dueDate |-> "12/24/2021",
                                          knownRansomwareCampaignUse |-> "Unknown"]
    /\ kevCatalog[CVE1].DateAdded = ZeroDate
    /\ ~kevCatalog[CVE1].RansomwareUse

(***************************************************************************)
(* The chunk loops of QueryBatch and FetchScores, their chunks taken in    *)
(* any order: the bodies of the loops, applied to the responses of the     *)
(* chunk requests of one call                                              *)
(***************************************************************************)
\* the longest list of matched CVE IDs passed to FetchScores
MaxMatched == 4

\* the results lists of the 200 responses to a chunk of n queries
OKResults(n) == {resp.results : resp \in {r \in OSVResponses(n) : r.status = "ok"}}

\* the length of chunk k (from 1) of a list of n elements cut by size
ChunkLen(n, size, k) == Min(size, n - (k - 1) * size)

\* the body of the QueryBatch loop for the chunks in the given order
RECURSIVE CombineOSV(_, _, _)
CombineOSV(chunks, order, results) ==
    IF order = <<>> THEN results
    ELSE CombineOSV(chunks, Tail(order),
                    MapBack(results, (Head(order) - 1) * batchSize, queryChunk(chunks[Head(order)])))

\* the body of the FetchScores loop for the chunks in the given order
RECURSIVE CombineEPSS(_, _, _)
CombineEPSS(chunks, order, scores) ==
    IF order = <<>> THEN scores
    ELSE CombineEPSS(chunks, Tail(order),
                     IF ChunkSkipped(chunks[Head(order)]) THEN scores
                     ELSE StoreRows(scores, chunks[Head(order)].data))

\* the order of the loops: increasing start index
InOrder(chunks) == [k \in DOMAIN chunks |-> k]

InitCombine ==
    /\ \/ /\ pc = "osv-chunks"
          /\ \E n \in 1..MaxBatchDeps :
                /\ deps = [i \in 1..n |-> Dependency(i)]
                /\ answers \in {a \in [1..NumChunks(n, batchSize) -> OKResults(batchSize)] :
                                   \A k \in DOMAIN a : a[k] \in OKResults(ChunkLen(n, batchSize, k))}
          /\ allKEVCVEs = <<>>
       \/ /\ pc = "epss-chunks"
          /\ deps = <<>>
          /\ \E n \in 1..MaxMatched :
                /\ allKEVCVEs \in {[i \in 1..n |-> CVE1], [i \in 1..n |-> IF i % 2 = 1 THEN CVE1 ELSE CVE2]}
                /\ answers \in [1..NumChunks(n, chunkSize) -> EPSSResponses]
    /\ config = [EPSSThreshold |-> 0, NoCache |-> TRUE]
    /\ cacheOn = FALSE
    /\ files = NoFiles
    /\ now = 0
    /\ kevCatalog = EmptyMap
    /\ cvesByDep = EmptyMap
    /\ osvI = 0
    /\ findings = <<>>
    /\ epssScores = EmptyMap
    /\ epssI = 0
    /\ result = NoResult
    /\ net = NoCalls
    /\ io = NoIO
    /\ lastGet = NoGet
    /\ lastSet = NoSet
    /\ timeouts = NoTimeouts
    /\ tree = NoTree
    /\ exit = NoExit
    /\ written = "none"

\* QueryBatch with its chunk results combined in some order
CombineOSVChunks ==
    /\ pc = "osv-chunks"
    /\ \E order \in Perms(DOMAIN answers) :
        cvesByDep' = CombineOSV(answers, order, EmptyMap)
    /\ net' = [net EXCEPT !.osv = Len(answers)]
    /\ pc' = "osv-combined"
    /\ UNCHANGED <<timeouts, tree, answers, exit, written, config, cacheOn, files, now, deps, osvI,
                   kevCatalog, findings, allKEVCVEs, epssScores, epssI, result, io, lastGet, lastSet>>

\* FetchScores with its chunk results combined in some order
CombineEPSSChunks ==
    /\ pc = "epss-chunks"
    /\ \E order \in Perms(DOMAIN answers) :
        epssScores' = CombineEPSS(answers, order, EmptyMap)
    /\ net' = [net EXCEPT !.epss = Len(answers)]
    /\ pc' = "epss-combined"
    /\ UNCHANGED <<timeouts, tree, answers, exit, written, config, cacheOn, files, now, deps, osvI,
                   kevCatalog, findings, allKEVCVEs, cvesByDep, epssI, result, io, lastGet, lastSet>>

NextCombine ==
    \/ CombineOSVChunks
    \/ CombineEPSSChunks

SpecCombine == InitCombine /\ [][NextCombine]_vars

\* C23: whatever the order in which the chunk results are combined, the
\* index-to-CVE map and the CVE-to-score map are those of the chunks
\* processed in increasing start-index order
C23_ChunkOrderIrrelevant ==
    /\ pc = "osv-combined" => cvesByDep = CombineOSV(answers, InOrder(answers), EmptyMap)
    /\ pc = "epss-combined" => epssScores = CombineEPSS(answers, InOrder(answers), EmptyMap)

\* the keys of the OSV result map that a step wrote
Written(old, new) == {k \in DOMAIN new : k \notin DOMAIN old \/ new[k] # old[k]}

\* C24: Scan never indexes deps outside 0..N-1, and a QueryBatch step
\* writes CVE lists only under the indexes of the chunk it requested
C24_IndexInRangeOwnChunk ==
    /\ [](pc # "panic")
    /\ [](pc = "xref" => DOMAIN cvesByDep \subseteq 0..(Len(deps) - 1))
    /\ [][pc = "osv" =>
            Written(cvesByDep, cvesByDep') \subseteq osvI..(Min(osvI + batchSize, Len(deps)) - 1)]_vars

\* the elements of s are pairwise different
Distinct(s) == \A a, b \in DOMAIN s : a # b => s[a] # s[b]

\* C25: in every Finding that Scan builds or returns, the KEV entries have
\* pairwise distinct CVE IDs and so have the entries of the cves list
C25_DistinctCVEsInFinding ==
    \A f \in Range(findings) \cup Range(result.findings) :
        /\ Distinct(KEVIDs(f.KEVs))
        /\ Distinct(CVEIDs(f.CVEs))

\* C26: when a call of FetchKEVCatalog by a client with a cache has returned
\* an error, the cache holds no fresh entry for the catalog URL
C26_NoFreshEntryAfterError ==
    (pc = "client" /\ cacheOn /\ result.returned /\ result.err # NoErr) =>
        ~Get(files, now, kevURL, TRUE).ok

\* the source files of the dependencies discovered
SourceFiles == {deps[i].SourceFile : i \in DOMAIN deps}

\* C27: after a discovery without error no dependency comes from a file
\* under a pruned directory that lies inside a scanned directory, and a
\* directory given as a scan path is walked even when its own name is a
\* pruned one: its well-formed manifest files are parsed
C27_PruningOnlyBelowScanPath ==
    (pc # "discover" /\ result.err = NoErr) =>
        /\ "proj/node_modules/package.json" \notin SourceFiles
        /\ \A k \in DOMAIN config.Paths :
              (tree[config.Paths[k]].kind = "dir" /\ tree[config.Paths[k]].readable) =>
                  \A f \in Range(tree[config.Paths[k]].entries) :
                      (tree[f].kind = "file" /\ CanParse(tree[f].name) /\ tree[f].state = "ok") =>
                          f \in SourceFiles

====
